---- MODULE Spec2Model ----
(***************************************************************************)
(* Order lifecycle engine of the restaurant management system: the order   *)
(* state machine (include/OrderFSM.h, daa_project.c++ OrderFlowManager),   *)
(* the guarded transition of the two Order entities (include/Models.h,     *)
(* daa_project.c++), the business rules with their configuration, the      *)
(* idempotency service, the command invoker with the event bus, the        *)
(* create-order command service and daa_project.c++'s modifyOrder with its *)
(* transaction ledger.                                                     *)
(***************************************************************************)

EXTENDS Integers, Sequences, FiniteSets, TLC

\* ---------------------------------------------------------------- bounds
MaxTime == 2         \* the clock (std::time) runs over 0..MaxTime
MaxTTL == 1          \* setDefaultTTL arguments are drawn from 0..MaxTTL
MaxHistory == 2      \* CommandInvoker history length explored
MaxEvents == 1       \* events delivered to / published by the model
MaxRounds == 2       \* rounds of two concurrent calls (updateState, isDuplicate)

\* ------------------------------------------------- enum class OrderState
CREATED == "CREATED"
CONFIRMED == "CONFIRMED"
PREPARING == "PREPARING"
READY == "READY"
SERVED == "SERVED"
CANCELLED == "CANCELLED"
REFUNDED == "REFUNDED"

OrderState == {CREATED, CONFIRMED, PREPARING, READY, SERVED, CANCELLED, REFUNDED}

\* ------------------------------------------------ OrderFSM::canTransition
\* mutant: a cancelled order can be reopened
OrderFSM_canTransition_Reopen(from, to) ==
    CASE from = CREATED   -> to = CONFIRMED \/ to = CANCELLED
      [] from = CONFIRMED -> to = PREPARING \/ to = CANCELLED
      [] from = PREPARING -> to = READY
      [] from = READY     -> to = SERVED \/ to = CANCELLED
      [] from = SERVED    -> to = REFUNDED
      [] from = CANCELLED -> to = CREATED
      [] OTHER            -> FALSE

\* mutant: a cancel edge out of PREPARING
OrderFSM_canTransition_Mut(from, to) ==
    CASE from = CREATED   -> to = CONFIRMED \/ to = CANCELLED
      [] from = CONFIRMED -> to = PREPARING \/ to = CANCELLED
      [] from = PREPARING -> to = READY \/ to = CANCELLED
      [] from = READY     -> to = SERVED \/ to = CANCELLED
      [] from = SERVED    -> to = REFUNDED
      [] OTHER            -> FALSE

OrderFSM_canTransition(from, to) ==
    CASE from = CREATED   -> to = CONFIRMED \/ to = CANCELLED
      [] from = CONFIRMED -> to = PREPARING \/ to = CANCELLED
      [] from = PREPARING -> to = READY
      [] from = READY     -> to = SERVED \/ to = CANCELLED
      [] from = SERVED    -> to = REFUNDED
      [] OTHER            -> FALSE

\* ---------------------------------------- OrderFlowManager::canTransition
OrderFlowManager_canTransition(current, next) ==
    CASE current = CREATED   -> (next = CONFIRMED \/ next = CANCELLED)
      [] current = CONFIRMED -> (next = PREPARING \/ next = CANCELLED)
      [] current = PREPARING -> (next = READY)
      [] current = READY     -> (next = SERVED \/ next = CANCELLED)
      [] current = SERVED    -> (next = REFUNDED)
      [] current = CANCELLED -> FALSE
      [] current = REFUNDED  -> FALSE
      [] OTHER               -> FALSE

\* ------------------------------------------------------ OrderFSM::toString
StateIndex(s) ==
    CASE s = CREATED -> 0 [] s = CONFIRMED -> 1 [] s = PREPARING -> 2
      [] s = READY -> 3 [] s = SERVED -> 4 [] s = CANCELLED -> 5
      [] s = REFUNDED -> 6

OrderFSM_toString(s) ==
    <<"CREATED", "CONFIRMED", "PREPARING", "READY", "SERVED", "CANCELLED",
      "REFUNDED">>[StateIndex(s) + 1]

\* ------------------------------------------ BusinessRules::canModifyOrder
BusinessRules_canModifyOrder(o) ==
    ~(o.state # CREATED /\ o.state # CONFIRMED)

canModifyOrder_message(o, old) ==
    IF o.state # CREATED /\ o.state # CONFIRMED
      THEN <<"Cannot modify order in ", OrderFSM_toString(o.state), " state">>
      ELSE old

\* ----------------------------------------------------------------- state
VARIABLES
    order,          \* a Models.h Order (the order of main.cpp:105)
    heapOrder,      \* a daa_project.c++ Domain::Order
    lastLog,        \* level of the last Core::Logger::log call
    call,           \* the last call on the order entities and its result
    testOrder,      \* main.cpp's testOrder
    mainPc,         \* main.cpp's position in the business-rules demo
    mainFlag,       \* main.cpp's canModify local
    lastViolationMessage,   \* BusinessRules::lastViolationMessage
    registry,       \* IdempotencyService::registry (requestId -> record)
    defaultTTLSeconds,      \* IdempotencyService::defaultTTLSeconds
    now,            \* the clock read by std::time(nullptr)
    cachedResult,   \* the caller's string passed to isDuplicate by reference
    icall,          \* the last IdempotencyService call and its result
    lastRecorded,   \* per requestId, the most recent record call (history)
    commandHistory, \* CommandInvoker::commandHistory
    listeners,      \* EventBus::listeners, in subscription order
    received,       \* per listener, the events its onEvent was called with
    ccall,          \* the last CommandInvoker / EventBus call and its result
    netCount,       \* successful executes minus successful undos since the
                    \* last clearHistory (history variable)
    published,      \* events handed to the event system by OrderCommandService
    createCalls,    \* the createOrder calls made so far and what each returned
    pc,             \* per thread, its position inside Order::updateState
    target,         \* per thread, the argument of its updateState call
    result,         \* per thread, the value its updateState call returned
    roundStart,     \* the order's state when the two concurrent calls began
    round,          \* number of concurrent rounds started
    ipc,            \* per caller, its position in the isDuplicate/record pattern
    sawDuplicate,   \* per caller, what its isDuplicate call returned
    raceId,         \* the request id the two callers present
    idemRound,      \* number of doubled requests started
    configMap,      \* Config::configMap (key -> string value)
    transactions,   \* daa_project.c++ transactions[0..transactionCount-1]
    refundAmount,   \* the caller's double passed to cancelOrder by reference
    txState,        \* Transaction::state
    operations,     \* Transaction::operations
    errorMessage,   \* Transaction::errorMessage
    rollbackRuns,   \* the positions in operations whose rollback has been
                    \* called, in the order of the calls
    operationRuns,  \* how many times an operation has been called
    everFailed,     \* an operation of this transaction has thrown
    everFinished,   \* the transaction has been COMMITTED or ROLLED_BACK
    tcall,          \* the last call on the transaction
    txCalls,        \* the number of calls made on the transaction
    trail           \* the states order has left through updateState, in order

entityVars ==
    <<order, heapOrder, call, testOrder, mainPc, mainFlag,
      lastViolationMessage>>

orderVars == <<entityVars, lastLog>>

idemVars ==
    <<registry, defaultTTLSeconds, now, cachedResult, icall, lastRecorded>>

cmdVars == <<commandHistory, listeners, received, ccall, netCount>>

createVars == <<published, createCalls>>

raceVars == <<pc, target, result, roundStart, round>>

idemRaceVars == <<ipc, sawDuplicate, raceId, idemRound>>

ruleVars == <<configMap>>

heapVars == <<transactions, refundAmount>>

txVars == <<txState, operations, errorMessage, rollbackRuns, operationRuns,
            everFailed, everFinished, tcall, txCalls>>

fsmVars == <<trail>>

extVars == <<idemRaceVars, ruleVars, heapVars, txVars, fsmVars>>

vars == <<orderVars, idemVars, cmdVars, createVars, raceVars, extVars>>

NoCall == [op |-> "none"]

\* the total of the orders main.cpp constructs (450.0)
MainTotal == 450

\* Models.h struct Order, initialised as main.cpp:76 and main.cpp:105 do
NewOrder ==
    [orderId |-> 1, customerId |-> 101, total |-> MainTotal, priority |-> 5,
     timestamp |-> 0, state |-> CREATED]

\* daa_project.c++ struct Order; status has the default member initialiser
NewHeapOrder ==
    [orderId |-> 1, customerId |-> 101, tableNumber |-> 1,
     items |-> <<"Burger">>, itemCount |-> 1,
     totalAmount |-> MainTotal, priority |-> 5, status |-> CREATED,
     orderTime |-> 0]

InitOrder ==
    /\ order = NewOrder
    /\ heapOrder = NewHeapOrder
    /\ lastLog = "none"
    /\ call = NoCall
    /\ testOrder = NewOrder
    /\ mainPc = "L77"
    /\ mainFlag = FALSE
    /\ lastViolationMessage = <<>>   \* the empty string, as a sequence of pieces

\* ---------------------------------------------------- Order::updateState
\* what updateState writes: the order's state and the value returned
UpdateState_call(next) ==
    IF OrderFSM_canTransition(order.state, next)
      THEN /\ order' = [order EXCEPT !.state = next]
           /\ call' = [op |-> "updateState", next |-> next, pre |-> order,
                       ret |-> TRUE]
      ELSE /\ order' = order
           /\ call' = [op |-> "updateState", next |-> next, pre |-> order,
                       ret |-> FALSE]

\* mutant: the state is written before the table is consulted
UpdateState_Mut(next) ==
    /\ order' = [order EXCEPT !.state = next]
    /\ call' = [op |-> "updateState", next |-> next, pre |-> order,
                ret |-> OrderFSM_canTransition(order.state, next)]
    /\ UNCHANGED <<heapOrder, lastLog, testOrder, mainPc, mainFlag,
                   lastViolationMessage>>
    /\ UNCHANGED <<idemVars, cmdVars, createVars, raceVars, extVars>>

UpdateState(next) ==
    /\ UpdateState_call(next)
    /\ UNCHANGED <<heapOrder, lastLog, testOrder, mainPc, mainFlag,
                   lastViolationMessage>>
    /\ UNCHANGED <<idemVars, cmdVars, createVars, raceVars, extVars>>

\* ------------------------------------------------ Order::tryUpdateStatus
TryUpdateStatus(newState) ==
    /\ IF OrderFlowManager_canTransition(heapOrder.status, newState)
         THEN /\ heapOrder' = [heapOrder EXCEPT !.status = newState]
              /\ lastLog' = "INFO"
              /\ call' = [op |-> "tryUpdateStatus", next |-> newState,
                          pre |-> heapOrder, ret |-> TRUE]
         ELSE /\ heapOrder' = heapOrder
              /\ lastLog' = "WARNING"
              /\ call' = [op |-> "tryUpdateStatus", next |-> newState,
                          pre |-> heapOrder, ret |-> FALSE]
    /\ UNCHANGED <<order, testOrder, mainPc, mainFlag, lastViolationMessage>>
    /\ UNCHANGED <<idemVars, cmdVars, createVars, raceVars, extVars>>

\* ------------------------- a caller evaluating the two transition tables
CanTransition(from, to) ==
    /\ call' = [op |-> "canTransition", from |-> from, to |-> to,
                fsm |-> OrderFSM_canTransition(from, to),
                flow |-> OrderFlowManager_canTransition(from, to)]
    /\ UNCHANGED <<order, heapOrder, lastLog, testOrder, mainPc, mainFlag,
                   lastViolationMessage>>
    /\ UNCHANGED <<idemVars, cmdVars, createVars, raceVars, extVars>>

\* --------------------------- main.cpp:76-87, the business-rules demo
MainStep ==
    /\ \/ /\ mainPc = "L77"
          /\ mainFlag' = BusinessRules_canModifyOrder(testOrder)
          /\ lastViolationMessage' =
                 canModifyOrder_message(testOrder, lastViolationMessage)
          /\ testOrder' = testOrder
          /\ mainPc' = "L81"
       \/ /\ mainPc = "L81"
          /\ testOrder' = [testOrder EXCEPT !.state = SERVED]
          /\ mainPc' = "L82"
          /\ UNCHANGED <<mainFlag, lastViolationMessage>>
       \/ /\ mainPc = "L82"
          /\ mainFlag' = BusinessRules_canModifyOrder(testOrder)
          /\ lastViolationMessage' =
                 canModifyOrder_message(testOrder, lastViolationMessage)
          /\ testOrder' = testOrder
          /\ mainPc' = "L87"
    /\ UNCHANGED <<order, heapOrder, lastLog, call>>
    /\ UNCHANGED <<idemVars, cmdVars, createVars, raceVars, extVars>>

\* ============================================== IdempotencyService
RequestIds == {"R1", "R2"}
Payloads == {"OrderID=1", "TxnID=789"}
OperationTypes == {"place_order"}

\* IdempotencyService.cpp:5, 24 hours, in the model's clock unit
DefaultTTL == 1

NeverRecorded == [kind |-> "none"]

InitIdem ==
    /\ registry = <<>>
    /\ defaultTTLSeconds = DefaultTTL
    /\ now = 0
    /\ cachedResult = ""
    /\ icall = NoCall
    /\ lastRecorded = [id \in RequestIds |-> NeverRecorded]

NoRecord == [requestId |-> ""]

\* std::map::find: the record stored under key, NoRecord at end()
RecordOf(map, key) == IF key \in DOMAIN map THEN map[key] ELSE NoRecord

\* std::map::erase
Erase(map, key) == [k \in DOMAIN map \ {key} |-> map[k]]

\* std::map::operator[] followed by assignment
Assign(map, key, val) ==
    [k \in DOMAIN map \cup {key} |-> IF k = key THEN val ELSE map[k]]

\* mutant: a record whose age equals its TTL counts as expired
isExpired_Mut(record, t) == (t - record.createdAt) >= record.ttlSeconds

\* IdempotencyRecord::isExpired, t being std::time(nullptr)
isExpired(record, t) == (t - record.createdAt) > record.ttlSeconds

\* mutant: an expired record is reported but kept
IsDuplicate_Mut(requestId) ==
    /\ IF requestId \notin DOMAIN registry
         THEN /\ icall' = [op |-> "isDuplicate", id |-> requestId,
                           ret |-> FALSE, preRec |-> RecordOf(registry, requestId),
                           at |-> now, preCached |-> cachedResult,
                           preRecorded |-> lastRecorded[requestId]]
              /\ UNCHANGED <<registry, cachedResult, lastLog>>
         ELSE IF isExpired(registry[requestId], now)
         THEN /\ icall' = [op |-> "isDuplicate", id |-> requestId,
                           ret |-> FALSE, preRec |-> RecordOf(registry, requestId),
                           at |-> now, preCached |-> cachedResult,
                           preRecorded |-> lastRecorded[requestId]]
              /\ UNCHANGED <<registry, cachedResult, lastLog>>
         ELSE /\ cachedResult' = registry[requestId].resultData
              /\ lastLog' = "INFO"
              /\ icall' = [op |-> "isDuplicate", id |-> requestId,
                           ret |-> TRUE, preRec |-> RecordOf(registry, requestId),
                           at |-> now, preCached |-> cachedResult,
                           preRecorded |-> lastRecorded[requestId]]
              /\ UNCHANGED registry
    /\ UNCHANGED <<defaultTTLSeconds, now, lastRecorded>>

\* IdempotencyService::isDuplicate; the DEBUG line of the expiry branch is
\* below Logger's level and is not written
IsDuplicate_call(requestId) ==
    /\ IF requestId \notin DOMAIN registry
         THEN /\ icall' = [op |-> "isDuplicate", id |-> requestId,
                           ret |-> FALSE, preRec |-> RecordOf(registry, requestId),
                           at |-> now, preCached |-> cachedResult,
                           preRecorded |-> lastRecorded[requestId]]
              /\ UNCHANGED <<registry, cachedResult, lastLog>>
         ELSE IF isExpired(registry[requestId], now)
         THEN /\ registry' = Erase(registry, requestId)
              /\ icall' = [op |-> "isDuplicate", id |-> requestId,
                           ret |-> FALSE, preRec |-> RecordOf(registry, requestId),
                           at |-> now, preCached |-> cachedResult,
                           preRecorded |-> lastRecorded[requestId]]
              /\ UNCHANGED <<cachedResult, lastLog>>
         ELSE /\ cachedResult' = registry[requestId].resultData
              /\ lastLog' = "INFO"
              /\ icall' = [op |-> "isDuplicate", id |-> requestId,
                           ret |-> TRUE, preRec |-> RecordOf(registry, requestId),
                           at |-> now, preCached |-> cachedResult,
                           preRecorded |-> lastRecorded[requestId]]
              /\ UNCHANGED registry
    /\ UNCHANGED <<defaultTTLSeconds, now, lastRecorded>>

IsDuplicate(requestId) ==
    /\ IsDuplicate_call(requestId)
    /\ UNCHANGED <<entityVars, cmdVars, createVars, raceVars, extVars>>

\* IdempotencyService::recordSuccess
RecordSuccess_call(requestId, operationType, resultData) ==
    /\ registry' = Assign(registry, requestId,
            [requestId |-> requestId, operationType |-> operationType,
             succeeded |-> TRUE, resultData |-> resultData,
             createdAt |-> now, ttlSeconds |-> defaultTTLSeconds])
    /\ lastLog' = "INFO"
    /\ icall' = [op |-> "recordSuccess", id |-> requestId,
                 hadRecord |-> requestId \in DOMAIN registry]
    /\ lastRecorded' = [lastRecorded EXCEPT ![requestId] =
            [kind |-> "success", payload |-> resultData, at |-> now,
             ttl |-> defaultTTLSeconds]]
    /\ UNCHANGED <<defaultTTLSeconds, now, cachedResult>>

RecordSuccess(requestId, operationType, resultData) ==
    /\ RecordSuccess_call(requestId, operationType, resultData)
    /\ UNCHANGED <<entityVars, cmdVars, createVars, raceVars, extVars>>

\* mutant: a failure is not entered into the registry
RecordFailure_Mut(requestId, operationType) ==
    /\ lastLog' = "WARNING"
    /\ icall' = [op |-> "recordFailure", id |-> requestId,
                 opType |-> operationType, at |-> now,
                 hadRecord |-> requestId \in DOMAIN registry]
    /\ lastRecorded' = [lastRecorded EXCEPT ![requestId] =
            [kind |-> "failure", payload |-> "", at |-> now,
             ttl |-> defaultTTLSeconds]]
    /\ UNCHANGED <<registry, defaultTTLSeconds, now, cachedResult>>

\* IdempotencyService::recordFailure
RecordFailure_call(requestId, operationType) ==
    /\ registry' = Assign(registry, requestId,
            [requestId |-> requestId, operationType |-> operationType,
             succeeded |-> FALSE, resultData |-> "",
             createdAt |-> now, ttlSeconds |-> defaultTTLSeconds])
    /\ lastLog' = "WARNING"
    /\ icall' = [op |-> "recordFailure", id |-> requestId,
                 opType |-> operationType, at |-> now,
                 hadRecord |-> requestId \in DOMAIN registry]
    /\ lastRecorded' = [lastRecorded EXCEPT ![requestId] =
            [kind |-> "failure", payload |-> "", at |-> now,
             ttl |-> defaultTTLSeconds]]
    /\ UNCHANGED <<defaultTTLSeconds, now, cachedResult>>

RecordFailure(requestId, operationType) ==
    /\ RecordFailure_call(requestId, operationType)
    /\ UNCHANGED <<entityVars, cmdVars, createVars, raceVars, extVars>>

\* mutant: the records already written take the new TTL as well
SetDefaultTTL_Mut(seconds) ==
    /\ defaultTTLSeconds' = seconds
    /\ registry' = [k \in DOMAIN registry |->
                       [registry[k] EXCEPT !.ttlSeconds = seconds]]
    /\ lastLog' = "INFO"
    /\ icall' = [op |-> "setDefaultTTL", id |-> ""]
    /\ UNCHANGED <<now, cachedResult, lastRecorded>>
    /\ UNCHANGED <<entityVars, cmdVars, createVars, raceVars, extVars>>

\* IdempotencyService::setDefaultTTL
SetDefaultTTL(seconds) ==
    /\ defaultTTLSeconds' = seconds
    /\ lastLog' = "INFO"
    /\ icall' = [op |-> "setDefaultTTL", id |-> ""]
    /\ UNCHANGED <<registry, now, cachedResult, lastRecorded>>
    /\ UNCHANGED <<entityVars, cmdVars, createVars, raceVars, extVars>>

\* IdempotencyService::getRecord: find, and the address of the record found
GetRecord(requestId) ==
    /\ icall' = [op |-> "getRecord", id |-> requestId, at |-> now,
                 found |-> requestId \in DOMAIN registry,
                 ret |-> RecordOf(registry, requestId)]
    /\ UNCHANGED <<registry, defaultTTLSeconds, now, cachedResult,
                   lastRecorded, lastLog>>
    /\ UNCHANGED <<entityVars, cmdVars, createVars, raceVars, extVars>>

\* IdempotencyService::getTrackedCount: registry.size()
GetTrackedCount ==
    /\ icall' = [op |-> "getTrackedCount", id |-> "", at |-> now,
                 ret |-> Cardinality(DOMAIN registry),
                 expired |-> Cardinality({k \in DOMAIN registry :
                                             isExpired(registry[k], now)})]
    /\ UNCHANGED <<registry, defaultTTLSeconds, now, cachedResult,
                   lastRecorded, lastLog>>
    /\ UNCHANGED <<entityVars, cmdVars, createVars, raceVars, extVars>>

\* the system clock advances between calls
Tick ==
    /\ now < MaxTime
    /\ now' = now + 1
    /\ UNCHANGED <<registry, defaultTTLSeconds, cachedResult, icall,
                   lastRecorded, lastLog>>
    /\ UNCHANGED <<entityVars, cmdVars, createVars, raceVars, extVars>>

NextIdem ==
    \/ \E id \in RequestIds : IsDuplicate(id)
    \/ \E id \in RequestIds, op \in OperationTypes, p \in Payloads :
          RecordSuccess(id, op, p)
    \/ \E id \in RequestIds, op \in OperationTypes : RecordFailure(id, op)
    \/ \E seconds \in 0..MaxTTL : SetDefaultTTL(seconds)
    \/ \E id \in RequestIds : GetRecord(id)
    \/ GetTrackedCount
    \/ Tick

\* ======================================= CommandInvoker and EventBus
Listeners == {"LoggerListener", "AuditListener"}
NullListener == "nullptr"

\* implementers of the EventListener interface whose onEvent throws: one a
\* std::runtime_error, one a value that is not a std::exception
ThrowingListeners == {"ThrowsStdException", "ThrowsOther"}
BusListeners == {"LoggerListener"} \cup ThrowingListeners

\* how a call of listener->onEvent(event) ends
Listener_onEvent(l) ==
    CASE l = "ThrowsStdException" -> "std::exception"
      [] l = "ThrowsOther"        -> "other"
      [] OTHER                    -> "returns"
NullCommand == [name |-> "nullptr"]

\* the commands main.cpp builds, for the order with the given id
Commands(id) ==
    {[name |-> "PlaceOrder", orderId |-> id],
     [name |-> "CancelOrder", orderId |-> id],
     [name |-> "IssueRefund", orderId |-> id],
     [name |-> "ConfirmOrder", orderId |-> id]}

InitCmd ==
    /\ commandHistory = <<>>
    /\ listeners = <<>>
    /\ received = <<>>
    /\ ccall = NoCall
    /\ netCount = 0

\* std::find over the listener vector
IsSubscribed(l) == \E i \in 1..Len(listeners) : listeners[i] = l

\* EventBus::subscribe
Subscribe(l) ==
    /\ IF l = NullListener
         THEN UNCHANGED <<listeners, lastLog>>
         ELSE IF ~IsSubscribed(l)
         THEN listeners' = Append(listeners, l) /\ lastLog' = "INFO"
         ELSE UNCHANGED <<listeners, lastLog>>
    /\ ccall' = [op |-> "subscribe", listener |-> l]
    /\ UNCHANGED <<commandHistory, received, netCount>>
    /\ UNCHANGED <<entityVars, idemVars, createVars, raceVars, extVars>>

\* EventBus::unsubscribe
Unsubscribe(l) ==
    /\ IF l = NullListener
         THEN UNCHANGED <<listeners, lastLog>>
         ELSE IF IsSubscribed(l)
         THEN /\ listeners' = SelectSeq(listeners, LAMBDA x : x # l)
              /\ lastLog' = "INFO"
         ELSE UNCHANGED <<listeners, lastLog>>
    /\ ccall' = [op |-> "unsubscribe", listener |-> l]
    /\ UNCHANGED <<commandHistory, received, netCount>>
    /\ UNCHANGED <<entityVars, idemVars, createVars, raceVars, extVars>>

\* EventSystem.cpp:59-66, the dispatch loop from position i on: onEvent is called
\* on listeners[i]; a std::exception is caught and logged and the loop goes
\* on; anything else thrown leaves the loop and emit
RECURSIVE Dispatch(_, _, _, _)
Dispatch(i, recv, type, log) ==
    IF i > Len(listeners)
      THEN [received |-> recv, escaped |-> FALSE, log |-> log]
      ELSE LET r == Append(recv, [listener |-> listeners[i], type |-> type])
               end == Listener_onEvent(listeners[i])
           IN  IF end = "other"
                 THEN [received |-> r, escaped |-> TRUE, log |-> log]
                 ELSE Dispatch(i + 1, r, type,
                               IF end = "std::exception" THEN "ERROR"
                                                         ELSE "INFO")

\* EventBus::emit: the deliveries made, whether an exception left emit, and
\* the level of the last line logged (log when none was)
EventBus_emit(recv, type, log) == Dispatch(1, recv, type, log)

\* PlaceOrderCommand / CancelOrderCommand / IssueRefundCommand /
\* ConfirmOrderCommand ::execute: the event each emits and the value returned
Command_execute(cmd) ==
    CASE cmd.name = "PlaceOrder"   -> [type |-> "ORDER_PLACED", ret |-> TRUE]
      [] cmd.name = "CancelOrder"  -> [type |-> "ORDER_CANCELLED", ret |-> TRUE]
      [] cmd.name = "IssueRefund"  -> [type |-> "REFUND_ISSUED", ret |-> TRUE]
      [] cmd.name = "ConfirmOrder" -> [type |-> "ORDER_CONFIRMED", ret |-> TRUE]

\* PlaceOrderCommand::undo and the three others: log and return true
Command_undo(cmd) == TRUE

\* CommandInvoker::getCommandCount
getCommandCount == Len(commandHistory)

\* CommandInvoker::execute; an exception leaving cmd->execute() leaves
\* execute as well, before push_back. ret is what execute returned, cmdRet
\* is whether cmd->execute() was called and returned true
InvokerExecute(cmd) ==
    /\ Len(received) < MaxEvents
    /\ Len(commandHistory) < MaxHistory
    /\ IF cmd = NullCommand
         THEN /\ ccall' = [op |-> "execute", cmd |-> cmd, ret |-> FALSE,
                           threw |-> FALSE, cmdRet |-> FALSE,
                           preHistory |-> Len(commandHistory),
                           preReceived |-> Len(received),
                           orderState |-> order.state]
              /\ UNCHANGED <<commandHistory, received, lastLog, netCount>>
         ELSE LET r == Command_execute(cmd)
                  d == EventBus_emit(received, r.type, "INFO")
                  ok == r.ret /\ ~d.escaped
              IN
              /\ received' = d.received
              /\ lastLog' = IF d.escaped THEN d.log ELSE "INFO"
              /\ commandHistory' =
                    IF ok THEN Append(commandHistory, cmd)
                          ELSE commandHistory
              /\ netCount' = IF ok THEN netCount + 1 ELSE netCount
              /\ ccall' = [op |-> "execute", cmd |-> cmd, ret |-> ok,
                           threw |-> d.escaped, cmdRet |-> ok,
                           preHistory |-> Len(commandHistory),
                           preReceived |-> Len(received),
                           orderState |-> order.state]
    /\ UNCHANGED listeners
    /\ UNCHANGED <<entityVars, idemVars, createVars, raceVars, extVars>>

\* mutant: undo removes the oldest command instead of the most recent
InvokerUndo_Mut ==
    /\ IF commandHistory = <<>>
         THEN /\ ccall' = [op |-> "undo", ret |-> FALSE, preHistory |-> 0]
              /\ UNCHANGED <<commandHistory, lastLog, netCount>>
         ELSE /\ commandHistory' = Tail(commandHistory)
              /\ lastLog' = "INFO"
              /\ netCount' = netCount - 1
              /\ ccall' = [op |-> "undo", ret |-> TRUE,
                           cmd |-> commandHistory[Len(commandHistory)],
                           preHistory |-> Len(commandHistory)]
    /\ UNCHANGED <<listeners, received>>
    /\ UNCHANGED <<entityVars, idemVars, createVars, raceVars, extVars>>

\* CommandInvoker::undo
InvokerUndo ==
    /\ IF commandHistory = <<>>
         THEN /\ ccall' = [op |-> "undo", ret |-> FALSE, preHistory |-> 0]
              /\ UNCHANGED <<commandHistory, lastLog, netCount>>
         ELSE LET cmd == commandHistory[Len(commandHistory)] IN
              IF Command_undo(cmd)
                THEN /\ commandHistory' =
                           SubSeq(commandHistory, 1, Len(commandHistory) - 1)
                     /\ lastLog' = "INFO"
                     /\ netCount' = netCount - 1
                     /\ ccall' = [op |-> "undo", ret |-> TRUE, cmd |-> cmd,
                                  preHistory |-> Len(commandHistory)]
                ELSE /\ ccall' = [op |-> "undo", ret |-> FALSE, cmd |-> cmd,
                                  preHistory |-> Len(commandHistory)]
                     /\ UNCHANGED <<commandHistory, lastLog, netCount>>
    /\ UNCHANGED <<listeners, received>>
    /\ UNCHANGED <<entityVars, idemVars, createVars, raceVars, extVars>>

\* CommandInvoker::clearHistory
ClearHistory ==
    /\ commandHistory' = <<>>
    /\ netCount' = 0
    /\ lastLog' = "INFO"
    /\ ccall' = [op |-> "clearHistory"]
    /\ UNCHANGED <<listeners, received>>
    /\ UNCHANGED <<entityVars, idemVars, createVars, raceVars, extVars>>

\* EventBus::emit called directly (main.cpp:141-153); the DEBUG line is below
\* Logger's level
Emit(type) ==
    /\ Len(received) < MaxEvents
    /\ LET d == EventBus_emit(received, type, lastLog) IN
       /\ received' = d.received
       /\ lastLog' = d.log
       /\ ccall' = [op |-> "emit", type |-> type, threw |-> d.escaped,
                    preReceived |-> Len(received)]
    /\ UNCHANGED <<commandHistory, listeners, netCount>>
    /\ UNCHANGED <<entityVars, idemVars, createVars, raceVars, extVars>>

\* ------------------------------------------ BusinessRules::canCancelOrder
BusinessRules_canCancelOrder(o) ==
    ~(o.state = SERVED \/ o.state = REFUNDED \/ o.state = CANCELLED)

NextCmd ==
    \/ \E next \in OrderState : UpdateState(next)
    \/ \E cmd \in Commands(order.orderId) \cup {NullCommand} :
          InvokerExecute(cmd)
    \/ InvokerUndo
    \/ ClearHistory
    \/ \E l \in Listeners \cup {NullListener} : Subscribe(l)
    \/ \E l \in Listeners \cup {NullListener} : Unsubscribe(l)

\* the event types main.cpp:141-153 emits directly
EmitTypes == {"ORDER_PLACED", "ORDER_SERVED"}

NextBus ==
    \/ \E cmd \in Commands(order.orderId) \cup {NullCommand} :
          InvokerExecute(cmd)
    \/ InvokerUndo
    \/ ClearHistory
    \/ \E l \in BusListeners \cup {NullListener} : Subscribe(l)
    \/ \E l \in BusListeners \cup {NullListener} : Unsubscribe(l)
    \/ \E type \in EmitTypes : Emit(type)

\* the invoker on a bus whose listeners may throw
NextInvoker ==
    \/ \E cmd \in Commands(order.orderId) \cup {NullCommand} :
          InvokerExecute(cmd)
    \/ InvokerUndo
    \/ ClearHistory
    \/ \E l \in BusListeners : Subscribe(l)

\* ================================ OrderCommandService::createOrder
MaxCreates == 2      \* createOrder calls explored

\* menu item prices, in cents, so that the 8% tax is exact
ItemLists == {<<>>, <<2500>>, <<2500, 5000>>}
CreateRequestIds == {"", "req-001", "req-002"}

RECURSIVE SumPrices(_)
\* the subtotal loop over items
SumPrices(items) ==
    IF items = <<>> THEN 0 ELSE Head(items) + SumPrices(Tail(items))

InitCreate ==
    /\ published = <<>>
    /\ createCalls = <<>>

\* OrderCommandService::createOrder; requestId is accepted and never read
CreateOrder(customerId, items, requestId) ==
    /\ Len(createCalls) < MaxCreates
    /\ LET subtotal == SumPrices(items)
           tax == (subtotal * 8) \div 100
           o == [id |-> <<"ORD-", now>>, customerId |-> customerId,
                 items |-> items, status |-> CREATED, createdAt |-> now,
                 subtotal |-> subtotal, tax |-> tax, total |-> subtotal + tax]
       IN /\ published' = Append(published,
                 [type |-> "OrderCreatedEvent", orderId |-> o.id,
                  total |-> o.total])
          /\ createCalls' = Append(createCalls,
                 [requestId |-> requestId, ret |-> o,
                  publishedBefore |-> Len(published),
                  publishedAfter |-> Len(published) + 1])
    /\ lastLog' = "INFO"
    /\ UNCHANGED <<entityVars, idemVars, cmdVars, raceVars, extVars>>

NextCreate ==
    \/ \E items \in ItemLists, rid \in CreateRequestIds :
          CreateOrder("C101", items, rid)
    \/ Tick

\* ===================== two threads calling Order::updateState at once
Threads == {1, 2}

InitRace ==
    /\ pc = [t \in Threads |-> "idle"]
    /\ target = [t \in Threads |-> CREATED]
    /\ result = [t \in Threads |-> FALSE]
    /\ roundStart = CREATED
    /\ round = 0

\* two commands are submitted against the order, each with its target state
StartRound(n1, n2) ==
    /\ round < MaxRounds
    /\ \A t \in Threads : pc[t] \in {"idle", "done"}
    /\ pc' = [t \in Threads |-> "check"]
    /\ target' = [t \in Threads |-> IF t = 1 THEN n1 ELSE n2]
    /\ result' = [t \in Threads |-> FALSE]
    /\ roundStart' = order.state
    /\ round' = round + 1
    /\ UNCHANGED order
    /\ UNCHANGED <<heapOrder, call, testOrder, mainPc, mainFlag,
                   lastViolationMessage, lastLog, idemVars, cmdVars,
                   createVars, extVars>>

\* Models.h:30, the if: the thread reads state and consults the table
ThreadCheck(t) ==
    /\ pc[t] = "check"
    /\ IF OrderFSM_canTransition(order.state, target[t])
         THEN pc' = [pc EXCEPT ![t] = "write"] /\ result' = result
         ELSE /\ pc' = [pc EXCEPT ![t] = "done"]
              /\ result' = [result EXCEPT ![t] = FALSE]
    /\ UNCHANGED <<order, target, roundStart, round>>
    /\ UNCHANGED <<heapOrder, call, testOrder, mainPc, mainFlag,
                   lastViolationMessage, lastLog, idemVars, cmdVars,
                   createVars, extVars>>

\* Models.h:31-32, the assignment and return true
ThreadWrite(t) ==
    /\ pc[t] = "write"
    /\ order' = [order EXCEPT !.state = target[t]]
    /\ pc' = [pc EXCEPT ![t] = "done"]
    /\ result' = [result EXCEPT ![t] = TRUE]
    /\ UNCHANGED <<target, roundStart, round>>
    /\ UNCHANGED <<heapOrder, call, testOrder, mainPc, mainFlag,
                   lastViolationMessage, lastLog, idemVars, cmdVars,
                   createVars, extVars>>

NextRace ==
    \/ \E n1 \in OrderState, n2 \in OrderState : StartRound(n1, n2)
    \/ \E t \in Threads : ThreadCheck(t)
    \/ \E t \in Threads : ThreadWrite(t)

\* ========== two callers running the isDuplicate / record pattern at once
\* main.cpp:198-203: if (!isDuplicate(id, cached)) { process; recordSuccess }
\* IdempotencyService takes no lock, so the calls of two callers interleave
Callers == {1, 2}

InitIdemRace ==
    /\ ipc = [c \in Callers |-> "idle"]
    /\ sawDuplicate = [c \in Callers |-> "not called"]
    /\ raceId = ""
    /\ idemRound = 0

\* the same request arrives twice (a client retry): both callers present id
StartRequest(id) ==
    /\ idemRound < MaxRounds
    /\ \A c \in Callers : ipc[c] \in {"idle", "done"}
    /\ ipc' = [c \in Callers |-> "check"]
    /\ sawDuplicate' = [c \in Callers |-> "not called"]
    /\ raceId' = id
    /\ idemRound' = idemRound + 1
    /\ UNCHANGED <<orderVars, idemVars, cmdVars, createVars, raceVars,
                   ruleVars, heapVars, txVars, fsmVars>>

\* main.cpp:198, the isDuplicate call and the branch on its result
CallerCheck(c) ==
    /\ ipc[c] = "check"
    /\ IsDuplicate_call(raceId)
    /\ sawDuplicate' = [sawDuplicate EXCEPT ![c] =
            IF icall'.ret THEN "duplicate" ELSE "new"]
    /\ ipc' = [ipc EXCEPT ![c] = IF icall'.ret THEN "done" ELSE "execute"]
    /\ UNCHANGED <<raceId, idemRound>>
    /\ UNCHANGED <<entityVars, cmdVars, createVars, raceVars, ruleVars,
                   heapVars,
                   txVars, fsmVars>>

\* main.cpp:199, the caller processes the request it took for new
CallerExecute(c) ==
    /\ ipc[c] = "execute"
    /\ ipc' = [ipc EXCEPT ![c] = "record"]
    /\ UNCHANGED <<sawDuplicate, raceId, idemRound>>
    /\ UNCHANGED <<orderVars, idemVars, cmdVars, createVars, raceVars,
                   ruleVars, heapVars, txVars, fsmVars>>

\* main.cpp:200, recordSuccess (or recordFailure when processing failed)
CallerRecord(c) ==
    /\ ipc[c] = "record"
    /\ \/ \E op \in OperationTypes, p \in Payloads :
             RecordSuccess_call(raceId, op, p)
       \/ \E op \in OperationTypes : RecordFailure_call(raceId, op)
    /\ ipc' = [ipc EXCEPT ![c] = "done"]
    /\ UNCHANGED <<sawDuplicate, raceId, idemRound>>
    /\ UNCHANGED <<entityVars, cmdVars, createVars, raceVars, ruleVars,
                   heapVars,
                   txVars, fsmVars>>

NextIdemRace ==
    \/ \E id \in RequestIds : StartRequest(id)
    \/ \E c \in Callers : CallerCheck(c)
    \/ \E c \in Callers : CallerExecute(c)
    \/ \E c \in Callers : CallerRecord(c)

\* ============================================ Config, BusinessRules
\* config/config.txt is not part of the sources: Config::initialize finds no
\* file and leaves the map empty
InitRules ==
    /\ configMap = <<>>

\* values Config::set is called with: a number and a string stoi rejects
ConfigValues == {"1", "abc"}

\* std::stoi on the strings above: the number read, or ok = FALSE where stoi
\* throws std::invalid_argument
stoi(str) ==
    CASE str = "1" -> [ok |-> TRUE, value |-> 1]
      [] OTHER     -> [ok |-> FALSE, value |-> 0]

\* Config::getInt: the default when the key is absent or stoi throws
Config_getInt(key, defaultValue) ==
    IF key \notin DOMAIN configMap
      THEN defaultValue
      ELSE IF stoi(configMap[key]).ok THEN stoi(configMap[key]).value
                                        ELSE defaultValue

\* Config::getInt logs a WARNING when the stored value is not an integer
Config_getInt_log(key, old) ==
    IF key \in DOMAIN configMap /\ ~stoi(configMap[key]).ok
      THEN "WARNING" ELSE old

\* Config::set
ConfigSet(key, value) ==
    /\ configMap' = Assign(configMap, key, value)
    /\ UNCHANGED <<orderVars, idemVars, cmdVars, createVars, raceVars,
                   idemRaceVars, heapVars, txVars, fsmVars>>

\* BusinessRules.cpp:132, 24 * 3600
SecondsPerDay == 86400

\* BusinessRules.cpp:129, the default of REFUND_WINDOW_DAYS
DefaultRefundWindowDays == 7

\* C++ integer division, truncating toward zero
TruncDiv(a, b) == IF a >= 0 THEN a \div b ELSE -((-a) \div b)

\* double * 0.5; the totals of the model are even
TimesHalf(x) == x \div 2

\* BusinessRules.cpp:129, the configured refund window in days
refundWindowDays == Config_getInt("REFUND_WINDOW_DAYS", DefaultRefundWindowDays)

\* BusinessRules::isWithinRefundWindow, t being std::time(nullptr)
BusinessRules_isWithinRefundWindow(o, t) ==
    LET orderAge == t - o.timestamp
        daysSinceOrder == TruncDiv(orderAge, SecondsPerDay)
    IN  daysSinceOrder <= refundWindowDays

\* BusinessRules::canCreateOrder
BusinessRules_canCreateOrder(customerId, amount) ==
    IF customerId <= 0 THEN FALSE
    ELSE IF amount <= 0 THEN FALSE
    ELSE TRUE

canCreateOrder_message(customerId, amount, old) ==
    IF customerId <= 0 THEN <<"Invalid customer ID">>
    ELSE IF amount <= 0 THEN <<"Order amount must be positive">>
    ELSE old

canCancelOrder_message(o, old) ==
    IF o.state = SERVED \/ o.state = REFUNDED \/ o.state = CANCELLED
      THEN <<"Cannot cancel order in ", OrderFSM_toString(o.state), " state">>
      ELSE old

\* mutant: an order that is being prepared may be served as well
BusinessRules_canServeOrder_Mut(o) == o.state \in {READY, PREPARING}

\* BusinessRules::canServeOrder
BusinessRules_canServeOrder(o) == ~(o.state # READY)

canServeOrder_message(o, old) ==
    IF o.state # READY THEN <<"Order must be READY before serving">> ELSE old

\* mutant: only an order already refunded may be refunded
BusinessRules_canRefundOrder_Mut(o, t) ==
    o.state = REFUNDED /\ BusinessRules_isWithinRefundWindow(o, t)

\* BusinessRules::canRefundOrder
BusinessRules_canRefundOrder(o, t) ==
    IF o.state # SERVED THEN FALSE
    ELSE IF ~BusinessRules_isWithinRefundWindow(o, t) THEN FALSE
    ELSE TRUE

canRefundOrder_message(o, t, old) ==
    IF o.state # SERVED THEN <<"Can only refund SERVED orders">>
    ELSE IF ~BusinessRules_isWithinRefundWindow(o, t)
      THEN <<"Order is outside refund window">>
    ELSE old

\* mutant: the halves of the rule are exchanged
BusinessRules_calculateRefundAmount_Mut(o, t) ==
    IF BusinessRules_isWithinRefundWindow(o, t) THEN TimesHalf(o.total)
                                                ELSE o.total

\* BusinessRules::calculateRefundAmount
BusinessRules_calculateRefundAmount(o, t) ==
    IF BusinessRules_isWithinRefundWindow(o, t) THEN o.total
                                                ELSE TimesHalf(o.total)

\* the arguments canCreateOrder is called with (main.cpp:71: 101, 450.0)
CustomerIds == {-1, 0, 101}
Amounts == {-1, 0, MainTotal}

\* the rule calls leave everything but the violation message and the log
RuleFrame ==
    /\ UNCHANGED <<order, heapOrder, testOrder, mainPc, mainFlag>>
    /\ UNCHANGED <<idemVars, cmdVars, createVars, raceVars, extVars>>

CanCreateOrder(customerId, amount) ==
    /\ call' = [op |-> "canCreateOrder", customerId |-> customerId,
                amount |-> amount,
                ret |-> BusinessRules_canCreateOrder(customerId, amount)]
    /\ lastViolationMessage' =
          canCreateOrder_message(customerId, amount, lastViolationMessage)
    /\ UNCHANGED lastLog
    /\ RuleFrame

CanModifyOrder ==
    /\ call' = [op |-> "canModifyOrder", pre |-> order,
                ret |-> BusinessRules_canModifyOrder(order)]
    /\ lastViolationMessage' =
          canModifyOrder_message(order, lastViolationMessage)
    /\ UNCHANGED lastLog
    /\ RuleFrame

CanCancelOrder ==
    /\ call' = [op |-> "canCancelOrder", pre |-> order,
                ret |-> BusinessRules_canCancelOrder(order)]
    /\ lastViolationMessage' =
          canCancelOrder_message(order, lastViolationMessage)
    /\ UNCHANGED lastLog
    /\ RuleFrame

CanServeOrder ==
    /\ call' = [op |-> "canServeOrder", pre |-> order,
                ret |-> BusinessRules_canServeOrder(order)]
    /\ lastViolationMessage' =
          canServeOrder_message(order, lastViolationMessage)
    /\ UNCHANGED lastLog
    /\ RuleFrame

\* canRefundOrder reads the clock and the configuration only for an order
\* that is SERVED
CanRefundOrder ==
    /\ call' = [op |-> "canRefundOrder", pre |-> order, at |-> now,
                days |-> refundWindowDays,
                within |-> BusinessRules_isWithinRefundWindow(order, now),
                ret |-> BusinessRules_canRefundOrder(order, now)]
    /\ lastViolationMessage' =
          canRefundOrder_message(order, now, lastViolationMessage)
    /\ lastLog' = IF order.state = SERVED
                    THEN Config_getInt_log("REFUND_WINDOW_DAYS", lastLog)
                    ELSE lastLog
    /\ RuleFrame

IsWithinRefundWindow ==
    /\ call' = [op |-> "isWithinRefundWindow", pre |-> order, at |-> now,
                days |-> refundWindowDays,
                ret |-> BusinessRules_isWithinRefundWindow(order, now)]
    /\ lastLog' = Config_getInt_log("REFUND_WINDOW_DAYS", lastLog)
    /\ UNCHANGED lastViolationMessage
    /\ RuleFrame

CalculateRefundAmount ==
    /\ call' = [op |-> "calculateRefundAmount", pre |-> order, at |-> now,
                days |-> refundWindowDays,
                within |-> BusinessRules_isWithinRefundWindow(order, now),
                ret |-> BusinessRules_calculateRefundAmount(order, now)]
    /\ lastLog' = Config_getInt_log("REFUND_WINDOW_DAYS", lastLog)
    /\ UNCHANGED lastViolationMessage
    /\ RuleFrame

\* clock readings around the ends of the configured windows, in seconds
\* since the order's timestamp
ClockSamples ==
    UNION {{d * SecondsPerDay, d * SecondsPerDay + 1,
            (d + 1) * SecondsPerDay - 1, (d + 1) * SecondsPerDay} :
              d \in {1, DefaultRefundWindowDays}}
      \cup {(DefaultRefundWindowDays - 1) * SecondsPerDay}

\* time passes between two calls
AdvanceClock(t) ==
    /\ t > now
    /\ now' = t
    /\ UNCHANGED <<registry, defaultTTLSeconds, cachedResult, icall,
                   lastRecorded>>
    /\ UNCHANGED <<orderVars, cmdVars, createVars, raceVars, extVars>>

NextRules ==
    \/ \E next \in OrderState : UpdateState(next)
    \/ \E t \in ClockSamples : AdvanceClock(t)
    \/ \E v \in ConfigValues : ConfigSet("REFUND_WINDOW_DAYS", v)
    \/ \E c \in CustomerIds, a \in Amounts : CanCreateOrder(c, a)
    \/ CanModifyOrder
    \/ CanCancelOrder
    \/ CanServeOrder
    \/ CanRefundOrder
    \/ IsWithinRefundWindow
    \/ CalculateRefundAmount

\* ====================== daa_project.c++ order modification and ledger
InitHeap ==
    /\ transactions = <<>>
    /\ refundAmount = 0

\* daa_project.c++:1689, the capacity of transactions[], scaled down from 1000
MAX_TRANSACTIONS == 3

\* recordTransaction: the ledger after the call; a full buffer drops the entry
recordTransaction(txs, orderId, action, details) ==
    IF Len(txs) >= MAX_TRANSACTIONS
      THEN txs
      ELSE Append(txs, [transactionId |-> Len(txs) + 1, orderId |-> orderId,
                        action |-> action, details |-> details])

\* the level recordTransaction logs at
recordTransaction_log(txs) ==
    IF Len(txs) >= MAX_TRANSACTIONS THEN "WARNING" ELSE "INFO"

\* arguments modifyOrder is called with; order 2 is not in the heap
OrderIds == {1, 2}
NewItemLists == {<<>>, <<"Pizza", "Cola">>}
NewTotals == {-100, 0, 900}

\* mutant: the status of the order is not looked at
ModifyOrder_Mut(orderId, newItems, newTotal) ==
    /\ IF heapOrder.orderId # orderId
         THEN /\ call' = [op |-> "modifyOrder", orderId |-> orderId,
                          newTotal |-> newTotal, pre |-> heapOrder,
                          txBefore |-> Len(transactions), ret |-> FALSE]
              /\ UNCHANGED <<heapOrder, transactions, lastLog>>
         ELSE /\ heapOrder' = [heapOrder EXCEPT !.itemCount = Len(newItems),
                                                !.items = newItems,
                                                !.totalAmount = newTotal]
              /\ transactions' = recordTransaction(transactions, orderId,
                     "Modified", "Order items and amount updated")
              /\ lastLog' = recordTransaction_log(transactions)
              /\ call' = [op |-> "modifyOrder", orderId |-> orderId,
                          newTotal |-> newTotal, pre |-> heapOrder,
                          txBefore |-> Len(transactions), ret |-> TRUE]
    /\ UNCHANGED <<order, testOrder, mainPc, mainFlag, lastViolationMessage>>
    /\ UNCHANGED refundAmount
    /\ UNCHANGED <<idemVars, cmdVars, createVars, raceVars, idemRaceVars,
                   ruleVars, txVars, fsmVars>>

\* modifyOrder, the heap holding heapOrder alone (orderHeapSize = 1)
ModifyOrder(orderId, newItems, newTotal) ==
    /\ IF heapOrder.orderId # orderId
         THEN /\ call' = [op |-> "modifyOrder", orderId |-> orderId,
                          newTotal |-> newTotal, pre |-> heapOrder,
                          txBefore |-> Len(transactions), ret |-> FALSE]
              /\ UNCHANGED <<heapOrder, transactions, lastLog>>
         ELSE IF heapOrder.status # CREATED /\ heapOrder.status # CONFIRMED
         THEN /\ lastLog' = "WARNING"
              /\ call' = [op |-> "modifyOrder", orderId |-> orderId,
                          newTotal |-> newTotal, pre |-> heapOrder,
                          txBefore |-> Len(transactions), ret |-> FALSE]
              /\ UNCHANGED <<heapOrder, transactions>>
         ELSE /\ heapOrder' = [heapOrder EXCEPT !.itemCount = Len(newItems),
                                                !.items = newItems,
                                                !.totalAmount = newTotal]
              /\ transactions' = recordTransaction(transactions, orderId,
                     "Modified", "Order items and amount updated")
              /\ lastLog' = recordTransaction_log(transactions)
              /\ call' = [op |-> "modifyOrder", orderId |-> orderId,
                          newTotal |-> newTotal, pre |-> heapOrder,
                          txBefore |-> Len(transactions), ret |-> TRUE]
    /\ UNCHANGED <<order, testOrder, mainPc, mainFlag, lastViolationMessage>>
    /\ UNCHANGED refundAmount
    /\ UNCHANGED <<idemVars, cmdVars, createVars, raceVars, idemRaceVars,
                   ruleVars, txVars, fsmVars>>

\* cancelOrder, the heap holding heapOrder alone. refundAmount is assigned
\* before tryUpdateStatus is asked whether the order can be cancelled
CancelOrder(orderId) ==
    /\ IF heapOrder.orderId # orderId
         THEN /\ call' = [op |-> "cancelOrder", orderId |-> orderId,
                          pre |-> heapOrder, preRefund |-> refundAmount,
                          txBefore |-> Len(transactions), ret |-> FALSE]
              /\ UNCHANGED <<heapOrder, transactions, refundAmount, lastLog>>
         ELSE IF heapOrder.status = SERVED
         THEN /\ lastLog' = "WARNING"
              /\ call' = [op |-> "cancelOrder", orderId |-> orderId,
                          pre |-> heapOrder, preRefund |-> refundAmount,
                          txBefore |-> Len(transactions), ret |-> FALSE]
              /\ UNCHANGED <<heapOrder, transactions, refundAmount>>
         ELSE /\ refundAmount' = heapOrder.totalAmount
              /\ IF OrderFlowManager_canTransition(heapOrder.status, CANCELLED)
                   THEN /\ heapOrder' = [heapOrder EXCEPT !.status = CANCELLED]
                        /\ transactions' = recordTransaction(transactions,
                               orderId, "Cancelled", "Full refund")
                        /\ lastLog' = recordTransaction_log(transactions)
                        /\ call' = [op |-> "cancelOrder", orderId |-> orderId,
                                    pre |-> heapOrder,
                                    preRefund |-> refundAmount,
                                    txBefore |-> Len(transactions),
                                    ret |-> TRUE]
                   ELSE /\ lastLog' = "ERROR"
                        /\ call' = [op |-> "cancelOrder", orderId |-> orderId,
                                    pre |-> heapOrder,
                                    preRefund |-> refundAmount,
                                    txBefore |-> Len(transactions),
                                    ret |-> FALSE]
                        /\ UNCHANGED <<heapOrder, transactions>>
    /\ UNCHANGED <<order, testOrder, mainPc, mainFlag, lastViolationMessage>>
    /\ UNCHANGED <<idemVars, cmdVars, createVars, raceVars, idemRaceVars,
                   ruleVars, txVars, fsmVars>>

\* ------------------- OrderFlowManager::stateToString and stringToState
DisplayNames ==
    <<"Created", "Confirmed", "Preparing", "Ready", "Served", "Cancelled",
      "Refunded">>

OrderFlowManager_stateToString(s) == DisplayNames[StateIndex(s) + 1]

\* mutant: the last comparison of the chain is missing
OrderFlowManager_stringToState_Mut(str) ==
    IF str = "Created" THEN CREATED
    ELSE IF str = "Confirmed" THEN CONFIRMED
    ELSE IF str = "Preparing" THEN PREPARING
    ELSE IF str = "Ready" THEN READY
    ELSE IF str = "Served" THEN SERVED
    ELSE IF str = "Cancelled" THEN CANCELLED
    ELSE CREATED

\* the chain of comparisons, and the state returned when none of them matches
OrderFlowManager_stringToState(str) ==
    IF str = "Created" THEN CREATED
    ELSE IF str = "Confirmed" THEN CONFIRMED
    ELSE IF str = "Preparing" THEN PREPARING
    ELSE IF str = "Ready" THEN READY
    ELSE IF str = "Served" THEN SERVED
    ELSE IF str = "Cancelled" THEN CANCELLED
    ELSE IF str = "Refunded" THEN REFUNDED
    ELSE CREATED

\* the status strings a caller passes: the seven names and others
StatusStrings ==
    {DisplayNames[i] : i \in 1..7} \cup {"Bogus", "CREATED", ""}

HeapFrame ==
    /\ UNCHANGED <<order, heapOrder, testOrder, mainPc, mainFlag,
                   lastViolationMessage, lastLog>>
    /\ UNCHANGED <<idemVars, cmdVars, createVars, raceVars, extVars>>

StateToString(s) ==
    /\ call' = [op |-> "stateToString", arg |-> s,
                ret |-> OrderFlowManager_stateToString(s)]
    /\ HeapFrame

StringToState(str) ==
    /\ call' = [op |-> "stringToState", arg |-> str,
                ret |-> OrderFlowManager_stringToState(str)]
    /\ HeapFrame

\* filterOrdersByStatus, the heap holding heapOrder alone
FilterOrdersByStatus(status) ==
    /\ LET targetState == OrderFlowManager_stringToState(status)
       IN  call' = [op |-> "filterOrdersByStatus", status |-> status,
                    pre |-> heapOrder,
                    ret |-> IF heapOrder.status = targetState
                              THEN <<heapOrder>> ELSE <<>>]
    /\ HeapFrame

\* calculateOrderCount, the heap holding heapOrder alone
CalculateOrderCount(status) ==
    /\ LET targetState == OrderFlowManager_stringToState(status)
       IN  call' = [op |-> "calculateOrderCount", status |-> status,
                    pre |-> heapOrder,
                    ret |-> IF heapOrder.status = targetState THEN 1 ELSE 0]
    /\ HeapFrame

NextHeap ==
    \/ \E newState \in OrderState : TryUpdateStatus(newState)
    \/ \E id \in OrderIds, items \in NewItemLists, total \in NewTotals :
          ModifyOrder(id, items, total)
    \/ \E id \in OrderIds : CancelOrder(id)
    \/ \E s \in OrderState : StateToString(s)
    \/ \E str \in StatusStrings : StringToState(str)
    \/ \E status \in StatusStrings : FilterOrdersByStatus(status)
    \/ \E status \in StatusStrings : CalculateOrderCount(status)

\* ================================================================
\* Transaction (TransactionManager.h, TransactionManager.cpp)
\* ================================================================
MaxOps == 2       \* operations registered in one transaction
MaxTxCalls == 5   \* calls made on one transaction

State_READY == "State::READY"
State_ACTIVE == "State::ACTIVE"
State_COMMITTED == "State::COMMITTED"
State_ROLLED_BACK == "State::ROLLED_BACK"
State_FAILED == "State::FAILED"

\* what calling an operation does: it returns, throws a std::exception, or
\* throws something that is not a std::exception
OperationKinds == {"returns", "std::exception", "other"}

\* a rollbackOp is nullptr (the default argument) or a callable
RollbackKinds == {"nullptr", "returns", "std::exception", "other"}

\* Transaction::Transaction()
InitTx ==
    /\ txState = State_READY
    /\ operations = <<>>
    /\ errorMessage = ""
    /\ rollbackRuns = <<>>
    /\ operationRuns = 0
    /\ everFailed = FALSE
    /\ everFinished = FALSE
    /\ tcall = [op |-> "none"]
    /\ txCalls = 0

TxFrame ==
    /\ UNCHANGED <<orderVars, idemVars, cmdVars, createVars, raceVars>>
    /\ UNCHANGED <<idemRaceVars, ruleVars, heapVars, fsmVars>>

\* applyRollbacks from position i down to 1: the positions whose rollback is
\* called, and whether an exception left the loop
RECURSIVE applyRollbacks_from(_, _, _)
applyRollbacks_from(ops, i, runs) ==
    IF i = 0 THEN [runs |-> runs, escaped |-> FALSE]
    ELSE IF ops[i].rollback = "nullptr"
      THEN applyRollbacks_from(ops, i - 1, runs)
    ELSE IF ops[i].rollback = "other"
      THEN [runs |-> Append(runs, i), escaped |-> TRUE]
    ELSE applyRollbacks_from(ops, i - 1, Append(runs, i))

applyRollbacks(ops) == applyRollbacks_from(ops, Len(ops), <<>>)

Transaction_isSuccessful == txState = State_COMMITTED

TxBegin ==
    /\ txCalls < MaxTxCalls
    /\ txCalls' = txCalls + 1
    /\ txState' = State_ACTIVE
    /\ tcall' = [op |-> "begin", preState |-> txState]
    /\ UNCHANGED <<operations, errorMessage, rollbackRuns, operationRuns,
                   everFailed, everFinished>>
    /\ TxFrame

TxExecute(operation, rollbackOp) ==
    /\ txCalls < MaxTxCalls
    /\ Len(operations) < MaxOps
    /\ txCalls' = txCalls + 1
    /\ IF txState # State_ACTIVE
         THEN /\ tcall' = [op |-> "execute", preState |-> txState,
                           preOps |-> operations, ran |-> FALSE,
                           threw |-> TRUE, operation |-> operation]
              /\ UNCHANGED <<txState, operations, errorMessage,
                             operationRuns, everFailed>>
         ELSE /\ operationRuns' = operationRuns + 1
              /\ tcall' = [op |-> "execute", preState |-> txState,
                           preOps |-> operations, ran |-> TRUE,
                           threw |-> operation # "returns",
                           operation |-> operation]
              /\ everFailed' = (everFailed \/ operation # "returns")
              /\ IF operation = "returns"
                   THEN /\ operations' =
                              Append(operations, [rollback |-> rollbackOp,
                                                  completed |-> TRUE])
                        /\ UNCHANGED <<txState, errorMessage>>
                   ELSE IF operation = "std::exception"
                   THEN /\ txState' = State_FAILED
                        /\ errorMessage' = "Operation failed: "
                        /\ UNCHANGED operations
                   ELSE UNCHANGED <<txState, operations, errorMessage>>
    /\ UNCHANGED <<rollbackRuns, everFinished>>
    /\ TxFrame

TxCommit ==
    /\ txCalls < MaxTxCalls
    /\ txCalls' = txCalls + 1
    /\ IF txState = State_ACTIVE
         THEN /\ txState' = State_COMMITTED
              /\ everFinished' = TRUE
              /\ tcall' = [op |-> "commit", preState |-> txState,
                           preOps |-> operations, preRuns |-> rollbackRuns,
                           threw |-> FALSE]
              /\ UNCHANGED rollbackRuns
         ELSE IF txState = State_FAILED
         THEN /\ rollbackRuns' = rollbackRuns \o applyRollbacks(operations).runs
              /\ tcall' = [op |-> "commit", preState |-> txState,
                           preOps |-> operations, preRuns |-> rollbackRuns,
                           threw |-> applyRollbacks(operations).escaped]
              /\ UNCHANGED <<txState, everFinished>>
         ELSE /\ tcall' = [op |-> "commit", preState |-> txState,
                           preOps |-> operations, preRuns |-> rollbackRuns,
                           threw |-> FALSE]
              /\ UNCHANGED <<txState, everFinished, rollbackRuns>>
    /\ UNCHANGED <<operations, errorMessage, operationRuns, everFailed>>
    /\ TxFrame

TxRollback ==
    /\ txCalls < MaxTxCalls
    /\ txCalls' = txCalls + 1
    /\ IF txState = State_ACTIVE \/ txState = State_FAILED
         THEN /\ rollbackRuns' = rollbackRuns \o applyRollbacks(operations).runs
              /\ tcall' = [op |-> "rollback", preState |-> txState,
                           preOps |-> operations, preRuns |-> rollbackRuns,
                           threw |-> applyRollbacks(operations).escaped]
              /\ IF applyRollbacks(operations).escaped
                   THEN UNCHANGED <<txState, everFinished>>
                   ELSE /\ txState' = State_ROLLED_BACK
                        /\ everFinished' = TRUE
         ELSE /\ tcall' = [op |-> "rollback", preState |-> txState,
                           preOps |-> operations, preRuns |-> rollbackRuns,
                           threw |-> FALSE]
              /\ UNCHANGED <<txState, everFinished, rollbackRuns>>
    /\ UNCHANGED <<operations, errorMessage, operationRuns, everFailed>>
    /\ TxFrame

NextTx ==
    \/ TxBegin
    \/ \E operation \in OperationKinds, rollbackOp \in RollbackKinds :
          TxExecute(operation, rollbackOp)
    \/ TxCommit
    \/ TxRollback

\* ================================================================
\* one order under updateState, with the states it has left recorded
\* ================================================================
MaxTrail == 6     \* successful updateState calls recorded in trail

InitFsm == trail = <<>>

\* updateState, and the state left by a call that succeeded
UpdateStateTracked(next) ==
    /\ UpdateState_call(next)
    /\ trail' = IF call'.ret /\ Len(trail) < MaxTrail
                  THEN Append(trail, order.state)
                  ELSE trail
    /\ UNCHANGED <<heapOrder, lastLog, testOrder, mainPc, mainFlag,
                   lastViolationMessage>>
    /\ UNCHANGED <<idemVars, cmdVars, createVars, raceVars, idemRaceVars,
                   ruleVars, heapVars, txVars>>

NextFsm ==
    \/ \E next \in OrderState : UpdateStateTracked(next)
    \/ \E newState \in OrderState : TryUpdateStatus(newState)

NextOrder ==
    \/ \E next \in OrderState : UpdateState(next)
    \/ \E newState \in OrderState : TryUpdateStatus(newState)
    \/ \E from \in OrderState, to \in OrderState : CanTransition(from, to)
    \/ MainStep

Init ==
    /\ InitOrder /\ InitIdem /\ InitCmd /\ InitCreate /\ InitRace
    /\ InitIdemRace /\ InitRules /\ InitHeap /\ InitTx /\ InitFsm

\* the order entities and main.cpp's demo
Next == NextOrder

Spec == Init /\ [][Next]_vars

\* the idempotency service under a running clock
SpecIdem == Init /\ [][NextIdem]_vars

\* the command invoker and the event bus, over an order that moves
SpecCmd == Init /\ [][NextCmd]_vars

SpecBus == Init /\ [][NextBus]_vars

SpecInvoker == Init /\ [][NextInvoker]_vars

SpecRules == Init /\ [][NextRules]_vars

SpecHeap == Init /\ [][NextHeap]_vars

\* one Transaction under begin, execute, commit and rollback in any order
SpecTx == Init /\ [][NextTx]_vars

\* one order and one heap order under their guarded transitions
SpecFsm == Init /\ [][NextFsm]_vars

\* the create-order command service under a running clock
SpecCreate == Init /\ [][NextCreate]_vars

\* two concurrent updateState calls on one order, statement by statement
SpecRace == Init /\ [][NextRace]_vars

SpecIdemRace == Init /\ [][NextIdemRace]_vars

\* ======================================================== the claims
\* the transition table of spec section 4.1, as a set of edges
Edges ==
    {<<CREATED, CONFIRMED>>, <<CREATED, CANCELLED>>, <<CONFIRMED, PREPARING>>,
     <<CONFIRMED, CANCELLED>>, <<PREPARING, READY>>, <<READY, SERVED>>,
     <<READY, CANCELLED>>, <<SERVED, REFUNDED>>}

Terminal == {CANCELLED, REFUNDED}

\* C1: for every ordered pair of states, OrderFSM::canTransition and
\* OrderFlowManager::canTransition both return true exactly when the pair is
\* one of the eight edges of the table; in particular never for (s, s).
C1_TransitionTable ==
    call.op = "canTransition" =>
        /\ call.fsm = (<<call.from, call.to>> \in Edges)
        /\ call.flow = (<<call.from, call.to>> \in Edges)
        /\ (call.from = call.to => ~call.fsm /\ ~call.flow)

C1_Witness ==
    /\ call.op = "canTransition"
    /\ call.from = READY /\ call.to = READY
    /\ ~call.fsm /\ ~call.flow

\* C2: updateState / tryUpdateStatus with a target that is not an allowed
\* successor of the current state returns false and leaves every field of
\* the order as it was before the call.
C2_IllegalTransitionRejected ==
    /\ (call.op = "updateState" /\ <<call.pre.state, call.next>> \notin Edges)
          => (call.ret = FALSE /\ order = call.pre)
    /\ (call.op = "tryUpdateStatus"
            /\ <<call.pre.status, call.next>> \notin Edges)
          => (call.ret = FALSE /\ heapOrder = call.pre)

C2_Witness ==
    /\ call.op = "updateState"
    /\ call.pre.state = SERVED /\ call.next = PREPARING
    /\ call.ret = FALSE /\ order.state = SERVED

\* C3: once an order is Cancelled or Refunded, no updateState call changes
\* its state: every such call returns false and the state stays terminal.
C3_TerminalIsFinal ==
    [][/\ (order.state \in Terminal => order'.state = order.state)
       /\ (call'.op = "updateState" /\ call'.pre.state \in Terminal
             => call'.ret = FALSE)]_vars

C3_Witness ==
    /\ call.op = "updateState"
    /\ call.pre.state = CANCELLED /\ call.next = CONFIRMED
    /\ call.ret = FALSE /\ order.state = CANCELLED

\* C4: an order starts in Created and every change of an order's state
\* field, by any operation of the program, is an edge of the transition
\* table (the field is written only by a successful guarded transition).
C4_StateChangesOnlyAlongEdges ==
    [][/\ (order'.state # order.state
             => <<order.state, order'.state>> \in Edges)
       /\ (heapOrder'.status # heapOrder.status
             => <<heapOrder.status, heapOrder'.status>> \in Edges)
       /\ (testOrder'.state # testOrder.state
             => <<testOrder.state, testOrder'.state>> \in Edges)]_vars

\* C6: isDuplicate(id) returns false when no outcome was ever recorded for
\* id; after recordSuccess(id, op, P), while the record's age does not exceed
\* its TTL, isDuplicate(id) returns true and sets cachedResult to the payload
\* of the most recent recordSuccess for id, whatever is stored for other ids.
C6_DuplicateAfterSuccess ==
    icall.op = "isDuplicate" =>
        /\ (icall.preRecorded.kind = "none" => icall.ret = FALSE)
        /\ (icall.preRecorded.kind = "success"
              /\ icall.at - icall.preRecorded.at <= icall.preRecorded.ttl
             => icall.ret = TRUE /\ cachedResult = icall.preRecorded.payload)

C6_Witness ==
    /\ icall.op = "isDuplicate"
    /\ icall.preRecorded.kind = "success"
    /\ icall.at - icall.preRecorded.at = icall.preRecorded.ttl
    /\ icall.preRecorded.ttl > 0
    /\ icall.ret = TRUE
    /\ cachedResult = icall.preRecorded.payload
    /\ icall.preCached # cachedResult
    /\ DOMAIN registry = RequestIds

\* C7: when a record's age exceeds its ttlSeconds, the next isDuplicate for
\* its requestId returns false, leaves cachedResult untouched and erases the
\* record; a record whose age is exactly ttlSeconds is still a duplicate.
C7_ExpiredRecordErased ==
    (icall.op = "isDuplicate" /\ icall.preRec # NoRecord) =>
        /\ (icall.at - icall.preRec.createdAt > icall.preRec.ttlSeconds
             => /\ icall.ret = FALSE
                /\ cachedResult = icall.preCached
                /\ icall.id \notin DOMAIN registry)
        /\ (icall.at - icall.preRec.createdAt = icall.preRec.ttlSeconds
             => icall.ret = TRUE)

C7_Witness ==
    /\ icall.op = "isDuplicate"
    /\ icall.preRec # NoRecord
    /\ icall.at - icall.preRec.createdAt > icall.preRec.ttlSeconds
    /\ icall.ret = FALSE
    /\ icall.preCached # ""
    /\ icall.id \notin DOMAIN registry

\* C8: recordFailure(id, op) stores, in place of any earlier record for id, a
\* record with succeeded = false and an empty payload, and until that record
\* expires isDuplicate(id) returns true.
C8_FailureShortCircuits ==
    /\ icall.op = "recordFailure" =>
          /\ icall.id \in DOMAIN registry
          /\ registry[icall.id].requestId = icall.id
          /\ registry[icall.id].operationType = icall.opType
          /\ registry[icall.id].succeeded = FALSE
          /\ registry[icall.id].resultData = ""
          /\ registry[icall.id].createdAt = icall.at
    /\ (icall.op = "isDuplicate" /\ icall.preRecorded.kind = "failure"
          /\ icall.at - icall.preRecorded.at <= icall.preRecorded.ttl)
         => (icall.ret = TRUE /\ cachedResult = "")

C8_Witness ==
    /\ icall.op = "isDuplicate"
    /\ icall.preRecorded.kind = "failure"
    /\ icall.ret = TRUE
    /\ icall.preCached # ""
    /\ cachedResult = ""

\* C5: a command whose business-rule check or FSM transition fails (a
\* CancelOrderCommand for an order that cannot be cancelled, a
\* ConfirmOrderCommand for an order that is not Created) reports failure,
\* delivers no event to any listener and is not added to the history.
C5_NoEventOnFailedCommand ==
    (/\ ccall.op = "execute"
     /\ ccall.cmd # NullCommand
     /\ \/ /\ ccall.cmd.name = "CancelOrder"
           /\ ~BusinessRules_canCancelOrder([state |-> ccall.orderState])
        \/ /\ ccall.cmd.name = "ConfirmOrder"
           /\ ~OrderFSM_canTransition(ccall.orderState, CONFIRMED))
    => /\ ccall.ret = FALSE
       /\ Len(received) = ccall.preReceived
       /\ Len(commandHistory) = ccall.preHistory

\* C9: of two createOrder calls with the same non-empty requestId only the
\* first creates an order: the second returns the outcome of the first and
\* publishes no further order-created event.
C9_CreateOrderIdempotent ==
    \A i \in DOMAIN createCalls, j \in DOMAIN createCalls :
        (i < j /\ createCalls[i].requestId # ""
           /\ createCalls[i].requestId = createCalls[j].requestId)
        => /\ createCalls[j].ret = createCalls[i].ret
           /\ createCalls[j].publishedAfter = createCalls[j].publishedBefore

\* C10: two concurrent updateState calls on one order, with different target
\* states that are both legal from the state the order had when they began,
\* never both return true.
C10_AtMostOneWinner ==
    (/\ \A t \in Threads : pc[t] = "done"
     /\ round > 0
     /\ target[1] # target[2]
     /\ OrderFSM_canTransition(roundStart, target[1])
     /\ OrderFSM_canTransition(roundStart, target[2]))
    => ~(result[1] /\ result[2])

\* C11: of two callers running "isDuplicate, execute, record" concurrently on
\* the same request id, at most one is told by isDuplicate that the request
\* is new, in every interleaving of their calls
C11_AtMostOneNewRequest ==
    Cardinality({c \in Callers : sawDuplicate[c] = "new"}) <= 1

\* C12: every read treats an expired record as absent: getRecord(id) never
\* returns a record whose age at the call exceeds its TTL, and
\* getTrackedCount() counts no such record
C12_ExpiredRecordsAbsent ==
    /\ (icall.op = "getRecord" /\ icall.found)
          => ~isExpired(icall.ret, icall.at)
    /\ icall.op = "getTrackedCount" => icall.expired = 0

\* C13: the invoker's history is a stack. execute(cmd) appends cmd exactly
\* when cmd is non-null and cmd.execute() returned true; undo() calls undo on
\* the most recently appended command only and removes it exactly when that
\* undo returned true; undo() on an empty history returns false and changes
\* nothing; getCommandCount() equals successful executes minus successful
\* undos since the last clearHistory; the commands that remain keep their
\* order of execution
C13_HistoryIsStack ==
    [][/\ getCommandCount' = netCount'
       /\ ccall' = ccall => commandHistory' = commandHistory
       /\ (ccall'.op = "execute" /\ ccall' # ccall) =>
             /\ commandHistory' =
                   IF ccall'.cmd # NullCommand /\ ccall'.cmdRet
                     THEN Append(commandHistory, ccall'.cmd)
                     ELSE commandHistory
             /\ ccall'.ret = (ccall'.cmd # NullCommand /\ ccall'.cmdRet)
       /\ (ccall'.op = "undo" /\ ccall' # ccall) =>
             IF commandHistory = <<>>
               THEN /\ ~ccall'.ret
                    /\ UNCHANGED <<commandHistory, listeners, received,
                                   netCount>>
               ELSE /\ ccall'.cmd = commandHistory[Len(commandHistory)]
                    /\ commandHistory' =
                          IF ccall'.ret
                            THEN SubSeq(commandHistory, 1,
                                        Len(commandHistory) - 1)
                            ELSE commandHistory
       /\ ccall'.op \in {"subscribe", "unsubscribe", "emit"} =>
             commandHistory' = commandHistory
      ]_vars

\* an undo has removed the most recent command and an older, different
\* command is left in the history
C13_Witness ==
    /\ ccall.op = "undo"
    /\ ccall.ret
    /\ Len(commandHistory) = 1
    /\ ccall.cmd # commandHistory[1]

\* the last call was an emit, made directly or by a command's execute
EmitCalled ==
    \/ ccall.op = "emit"
    \/ ccall.op = "execute" /\ ccall.cmd # NullCommand

\* the type of the event of the last emit
EmittedType ==
    IF ccall.op = "emit" THEN ccall.type ELSE Command_execute(ccall.cmd).type

\* the onEvent calls made by the last emit, in the order they were made
Deliveries == SubSeq(received, ccall.preReceived + 1, Len(received))

\* C14: emit calls onEvent exactly once on each listener subscribed at the
\* time of the call, in subscription order, and all deliveries are done when
\* emit returns; subscribing a listener a second time gives it no second
\* delivery; an unsubscribed listener receives no later event
C14_EmitDeliversOnceInOrder ==
    /\ \A i, j \in 1..Len(listeners) : listeners[i] = listeners[j] => i = j
    /\ ccall.op = "unsubscribe" => ~IsSubscribed(ccall.listener)
    /\ EmitCalled =>
          Deliveries = [i \in 1..Len(listeners) |->
                           [listener |-> listeners[i], type |-> EmittedType]]

\* C15: when a listener's onEvent raises an error during emit, whatever the
\* kind of error, every listener subscribed after it still receives the
\* event and the error does not leave emit: the command that emitted
\* completes
C15_ListenerErrorIsolated ==
    (/\ EmitCalled
     /\ \E i \in 1..Len(listeners) : Listener_onEvent(listeners[i]) # "returns")
    => /\ ~ccall.threw
       /\ \A i \in 1..Len(listeners) :
             \E k \in 1..Len(Deliveries) :
                Deliveries[k].listener = listeners[i]
       /\ ccall.op = "execute" => ccall.ret

\* the happy path of main.cpp:105-129
LifecyclePath == <<CREATED, CONFIRMED, PREPARING, READY, SERVED>>

\* the age of the order of the last rule call is inside the refund window
InsideWindow == (call.at - call.pre.timestamp) <= call.days * SecondsPerDay

\* C16: from Created, updateState(Confirmed), (Preparing), (Ready), (Served)
\* each succeed in that order; updateState(Preparing) is then rejected and the
\* state stays Served; inside the refund window canRefundOrder is true,
\* updateState(Refunded) succeeds and calculateRefundAmount is the full total
C16_LifecycleThenRefund ==
    /\ call.op = "updateState" =>
          /\ \A i \in 1..4 :
                (call.pre.state = LifecyclePath[i]
                    /\ call.next = LifecyclePath[i + 1])
                => (call.ret /\ order.state = LifecyclePath[i + 1])
          /\ (call.pre.state = SERVED /\ call.next = PREPARING)
                => (~call.ret /\ order.state = SERVED)
          /\ (call.pre.state = SERVED /\ call.next = REFUNDED)
                => (call.ret /\ order.state = REFUNDED)
    /\ (call.op = "canRefundOrder" /\ call.pre.state = SERVED /\ InsideWindow)
          => call.ret
    /\ (call.op = "calculateRefundAmount" /\ call.pre.state = SERVED
           /\ InsideWindow)
          => call.ret = call.pre.total

\* the order went Created .. Served (the only way into SERVED) and a refund
\* was approved for it inside the window
C16_Witness ==
    /\ order.state = SERVED
    /\ call.op = "canRefundOrder"
    /\ InsideWindow
    /\ call.ret

\* C17: each predicate returns exactly its condition. canCreateOrder(c, a) is
\* false iff c <= 0 or a <= 0; canModifyOrder is true iff the state is
\* Created or Confirmed; canCancelOrder is false iff the state is Served,
\* Cancelled or Refunded; canServeOrder is true iff the state is Ready;
\* canRefundOrder is true iff the state is Served and isWithinRefundWindow
\* holds for the order
C17_PredicatesExact ==
    /\ call.op = "canCreateOrder" =>
          (~call.ret <=> (call.customerId <= 0 \/ call.amount <= 0))
    /\ call.op = "canModifyOrder" =>
          (call.ret <=> call.pre.state \in {CREATED, CONFIRMED})
    /\ call.op = "canCancelOrder" =>
          (~call.ret <=> call.pre.state \in {SERVED, CANCELLED, REFUNDED})
    /\ call.op = "canServeOrder" =>
          (call.ret <=> call.pre.state = READY)
    /\ call.op = "canRefundOrder" =>
          (call.ret <=> (call.pre.state = SERVED /\ call.within))

\* canServeOrder has refused an order that is still being prepared
C17_Witness ==
    /\ call.op = "canServeOrder"
    /\ call.pre.state = PREPARING
    /\ ~call.ret

\* C18: isWithinRefundWindow is true exactly when now - timestamp is at most
\* refundWindowDays * 86400 seconds: any greater age, by even one second,
\* fails
C18_WindowBoundaryInSeconds ==
    call.op = "isWithinRefundWindow" => (call.ret <=> InsideWindow)

C20_TotalStaysPositive ==
    /\ heapOrder.totalAmount > 0
    /\ order.total > 0

\* C21: the total and the items of an order change only while it is Created
\* or Confirmed: modifyOrder on an order in another state, or on an unknown
\* id, returns false, leaves the order as it was and records no transaction;
\* once an order is Cancelled or Refunded neither its state nor its total
\* changes again
C21_ModifyOnlyWhilePending ==
    /\ [](call.op = "modifyOrder"
            => /\ (call.orderId # call.pre.orderId
                      \/ call.pre.status \notin {CREATED, CONFIRMED})
                    => /\ ~call.ret
                       /\ heapOrder = call.pre
                       /\ Len(transactions) = call.txBefore
               /\ ~call.ret => heapOrder = call.pre)
    /\ [][/\ (heapOrder'.totalAmount # heapOrder.totalAmount
                 \/ heapOrder'.items # heapOrder.items)
               => heapOrder.status \in {CREATED, CONFIRMED}
          /\ heapOrder.status \in Terminal
               => (heapOrder'.status = heapOrder.status
                      /\ heapOrder'.totalAmount = heapOrder.totalAmount)
         ]_vars

\* modifyOrder has been refused on an order that was already cancelled
C21_Witness ==
    /\ call.op = "modifyOrder"
    /\ call.orderId = call.pre.orderId
    /\ call.pre.status = CANCELLED
    /\ ~call.ret

\* C29: cancelOrder returns true only for an existing order that is Created,
\* Confirmed or Ready, and then the order is Cancelled, refundAmount is the
\* order's total and exactly one "Cancelled" transaction has been recorded;
\* when it returns false the order, the transaction log and the caller's
\* refundAmount are as they were
C29_CancelAllOrNothing ==
    call.op = "cancelOrder"
        => IF call.ret
             THEN /\ call.orderId = call.pre.orderId
                  /\ call.pre.status \in {CREATED, CONFIRMED, READY}
                  /\ heapOrder.status = CANCELLED
                  /\ refundAmount = call.pre.totalAmount
                  /\ Len(transactions) = call.txBefore + 1
                  /\ transactions[Len(transactions)].action = "Cancelled"
             ELSE /\ heapOrder = call.pre
                  /\ Len(transactions) = call.txBefore
                  /\ refundAmount = call.preRefund

\* C22: stringToState, given a string that is none of the seven display
\* names, returns no valid OrderState, so filterOrdersByStatus and
\* calculateOrderCount with an unknown status name select no order
C22_UnknownNameSelectsNothing ==
    /\ (call.op = "stringToState"
           /\ call.arg \notin {DisplayNames[i] : i \in 1..7})
         => call.ret \notin OrderState
    /\ (call.op = "filterOrdersByStatus"
           /\ call.status \notin {DisplayNames[i] : i \in 1..7})
         => call.ret = <<>>
    /\ (call.op = "calculateOrderCount"
           /\ call.status \notin {DisplayNames[i] : i \in 1..7})
         => call.ret = 0

\* C23: stringToState(stateToString(s)) = s for each of the seven states,
\* and stateToString gives distinct states distinct display names
C23_DisplayNameRoundTrip ==
    /\ call.op = "stateToString"
         => OrderFlowManager_stringToState(call.ret) = call.arg
    /\ (call.op = "stringToState"
           /\ call.arg \in {DisplayNames[i] : i \in 1..7})
         => /\ call.ret \in OrderState
            /\ OrderFlowManager_stateToString(call.ret) = call.arg
    /\ \A s, t \in OrderState :
          OrderFlowManager_stateToString(s) = OrderFlowManager_stateToString(t)
              => s = t

\* stateToString has been applied to the last state of the enumeration
C23_Witness ==
    /\ call.op = "stateToString"
    /\ call.arg = REFUNDED
    /\ call.ret = "Refunded"

\* the names of the business-rule predicates
RulePredicates ==
    {"canCreateOrder", "canModifyOrder", "canCancelOrder", "canRefundOrder",
     "canServeOrder"}

\* C24: evaluating a business-rule predicate (canCreateOrder, canModifyOrder,
\* canCancelOrder, canRefundOrder, canServeOrder) writes no program state,
\* whether the check passes or fails
C24_PredicatesWriteNothing ==
    [][call'.op \in RulePredicates
          => /\ lastViolationMessage' = lastViolationMessage
             /\ order' = order
             /\ configMap' = configMap]_vars

\* the positions of ops that have a rollback action, last first
RECURSIVE ReverseRollbacks(_, _)
ReverseRollbacks(ops, i) ==
    IF i = 0 THEN <<>>
    ELSE IF ops[i].rollback = "nullptr" THEN ReverseRollbacks(ops, i - 1)
    ELSE <<i>> \o ReverseRollbacks(ops, i - 1)

\* C25: execute runs an operation only while the transaction is ACTIVE
\* (otherwise it throws and runs nothing); an operation that throws makes the
\* transaction FAILED and is not recorded; commit() or rollback() on the
\* failed transaction runs the rollback of every completed operation in
\* reverse order of execution; isSuccessful() holds only for a transaction
\* that is COMMITTED and has had no failed operation
C25_TransactionAtomic ==
    /\ (tcall.op = "execute" /\ tcall.preState # State_ACTIVE)
         => /\ tcall.threw /\ ~tcall.ran
            /\ operations = tcall.preOps
            /\ txState = tcall.preState
    /\ (tcall.op = "execute" /\ tcall.ran /\ tcall.threw)
         => /\ txState = State_FAILED
            /\ operations = tcall.preOps
    /\ (tcall.op \in {"commit", "rollback"} /\ tcall.preState = State_FAILED)
         => rollbackRuns =
               tcall.preRuns \o ReverseRollbacks(tcall.preOps, Len(tcall.preOps))
    /\ Transaction_isSuccessful
         => (txState = State_COMMITTED /\ ~everFailed)

\* how many times the rollback at position i has been called
RECURSIVE RunsOf(_, _)
RunsOf(i, runs) ==
    IF runs = <<>> THEN 0
    ELSE (IF Head(runs) = i THEN 1 ELSE 0) + RunsOf(i, Tail(runs))

\* C30: the rollback of each completed operation is executed at most once,
\* and a transaction that has reached COMMITTED or ROLLED_BACK never runs a
\* further operation or rollback, under any sequence of begin, execute,
\* commit and rollback
C30_RollbackAtMostOnce ==
    /\ [](\A i \in 1..Len(operations) : RunsOf(i, rollbackRuns) <= 1)
    /\ [][everFinished => /\ operationRuns' = operationRuns
                          /\ rollbackRuns' = rollbackRuns]_vars

\* C26: whenever a business rule approves an action for an order, the
\* guarded transition is legal from the order's state: updateState(CANCELLED)
\* succeeds right after canCancelOrder returned true, updateState(SERVED)
\* after canServeOrder, updateState(REFUNDED) after canRefundOrder
C26_ApprovedTransitionSucceeds ==
    [][(call.op \in {"canCancelOrder", "canServeOrder", "canRefundOrder"}
          /\ call.ret
          /\ call'.op = "updateState"
          /\ call'.next = (CASE call.op = "canCancelOrder" -> CANCELLED
                             [] call.op = "canServeOrder" -> SERVED
                             [] call.op = "canRefundOrder" -> REFUNDED))
         => call'.ret]_vars

\* the states reachable from s by one to n legal transitions
RECURSIVE ReachWithin(_, _)
ReachWithin(s, n) ==
    IF n = 0 THEN {}
    ELSE LET near == ReachWithin(s, n - 1)
         IN  near \cup {t \in OrderState :
                           \/ OrderFSM_canTransition(s, t)
                           \/ \E u \in near : OrderFSM_canTransition(u, t)}

Reach(s) == ReachWithin(s, Cardinality(OrderState))

\* C27: the transition relation is acyclic and its only states without
\* successors are Cancelled and Refunded: at most five updateState calls on
\* one order succeed, the order never returns to a state it has left, and
\* from every non-terminal state a terminal state can be reached
C27_AcyclicAndBounded ==
    /\ \A s \in OrderState : s \notin Reach(s)
    /\ \A s \in OrderState :
          (\A t \in OrderState : ~OrderFSM_canTransition(s, t))
              <=> s \in {CANCELLED, REFUNDED}
    /\ \A s \in OrderState \ {CANCELLED, REFUNDED} :
          Reach(s) \cap {CANCELLED, REFUNDED} # {}
    /\ Len(trail) <= 5
    /\ \A i \in 1..Len(trail) : trail[i] # order.state
    /\ \A i, j \in 1..Len(trail) : i # j => trail[i] # trail[j]

\* five updateState calls on the order have succeeded
C27_Witness ==
    /\ Len(trail) = 5
    /\ order.state = REFUNDED
    /\ call.op = "updateState" /\ call.ret

\* C28: setDefaultTTL affects only records written afterwards: every record
\* keeps the TTL that was the default when it was recorded, so changing the
\* default neither expires nor revives an existing record; recording again
\* for a requestId replaces the record and restarts its age with the default
\* TTL of that moment
C28_DefaultTTLNotRetroactive ==
    /\ [](\A id \in DOMAIN registry :
             /\ registry[id].ttlSeconds = lastRecorded[id].ttl
             /\ registry[id].createdAt = lastRecorded[id].at)
    /\ [][/\ defaultTTLSeconds' # defaultTTLSeconds
               => /\ registry' = registry
                  /\ \A id \in DOMAIN registry :
                        isExpired(registry'[id], now')
                            = isExpired(registry[id], now)
          /\ \A id \in DOMAIN registry' :
                (id \notin DOMAIN registry \/ registry'[id] # registry[id])
                    => /\ registry'[id].createdAt = now
                       /\ registry'[id].ttlSeconds = defaultTTLSeconds
         ]_vars

\* the default has been changed under a live record that the new default
\* would have expired
C28_Witness ==
    /\ icall.op = "setDefaultTTL"
    /\ \E id \in DOMAIN registry :
          /\ registry[id].ttlSeconds # defaultTTLSeconds
          /\ ~isExpired(registry[id], now)
          /\ (now - registry[id].createdAt) > defaultTTLSeconds

====
